---- MODULE Spec2Model ----
(***************************************************************************)
(* ATM simulation (src/atmsimulation.c): the in-memory account table, the  *)
(* per-account bounded transaction log, the binary data file and the menu  *)
(* loops of main() and atm_session().                                      *)
(*                                                                         *)
(* Values of C type double are modelled by a binary floating-point format  *)
(* with MantBits significant bits, round-to-nearest-even, NaN and the two  *)
(* infinities; the finite values used are integers.  The exponent range is *)
(* not bounded: finite overflow to infinity lies outside the inputs used.  *)
(* The data file is the sequence of items passed to fwrite: the count, the *)
(* counter, and whole account records.  Under Spec a call of               *)
(* save_accounts() either fails at fopen and leaves the file alone, or     *)
(* writes every item; under SpecShortWrite it may also stop after any      *)
(* number of items.  SpecRounding is Spec with other amounts typed.        *)
(* Only the populated prefix of accounts[] and of each txns[] is kept: the *)
(* code never reads the slots beyond account_count and txn_count.          *)
(***************************************************************************)
EXTENDS Integers, Sequences, FiniteSets, TLC

VARIABLES
    accounts,       \* accounts[0 .. account_count-1], as a sequence
    account_count,
    next_acc_no,
    file,           \* the data file accounts.dat
    pc,             \* "menu" (main loop), "session" (atm_session), "exited"
    cur,            \* atm_session's acc, as an index into accounts (0: none)
    out,            \* what the last command printed
    save_res,       \* how the most recent save_accounts() call ended
    last_issued,    \* the last account number printed by create_account
    steps           \* commands so far that had an effect; also the clock

vars == <<accounts, account_count, next_acc_no, file, pc, cur, out, save_res,
          last_issued, steps>>

(* ---------- sizes ---------- *)
\* capacity of the account table (MAX_ACCOUNTS is 200 in the source), scaled
MAX_ACCOUNTS == 2
\* capacity of one transaction log (MAX_TXNS is 10 in the source), scaled
MAX_TXNS == 3
\* sizeof(t.type)
TYPE_LEN == 8
\* sizeof(acc.name)
NAME_LEN == 64
\* first account number
BASE_ACC_NO == 100100
\* significant bits of a double (53 in the source's arithmetic), scaled
MantBits == 2
\* number of commands with an effect (an account created, a login, a debit
\* or credit, a PIN change, a logout, an exit, a start) in one behaviour
MaxSteps == 5

(* ---------- double ---------- *)
Fin(n) == [cls |-> "fin", v |-> n]
NaN == [cls |-> "nan", v |-> 0]
PInf == [cls |-> "inf", v |-> 1]
NInf == [cls |-> "inf", v |-> -1]

Abs(n) == IF n < 0 THEN -n ELSE n

RECURSIVE Pow2(_)
Pow2(k) == IF k = 0 THEN 1 ELSE 2 * Pow2(k - 1)

\* the spacing of representable values around magnitude a
RECURSIVE Quantum(_, _)
Quantum(a, q) == IF a < Pow2(MantBits) * q THEN q ELSE Quantum(a, 2 * q)

\* round-to-nearest, ties to even, of the exact integer n
RoundNearestEven(n) ==
    LET a == Abs(n)
        q == Quantum(a, 1)
        lo == (a \div q) * q
        r == a - lo
        m == IF 2 * r < q THEN lo
             ELSE IF 2 * r > q THEN lo + q
             ELSE IF (lo \div q) % 2 = 0 THEN lo ELSE lo + q
    IN IF n < 0 THEN -m ELSE m

FNeg(x) == IF x.cls = "nan" THEN x ELSE [x EXCEPT !.v = -x.v]

\* x + y in double arithmetic
FAdd(x, y) ==
    IF x.cls = "nan" \/ y.cls = "nan" THEN NaN
    ELSE IF x.cls = "inf" /\ y.cls = "inf" THEN (IF x.v = y.v THEN x ELSE NaN)
    ELSE IF x.cls = "inf" THEN x
    ELSE IF y.cls = "inf" THEN y
    ELSE Fin(RoundNearestEven(x.v + y.v))

\* x - y in double arithmetic
FSub(x, y) == FAdd(x, FNeg(y))

\* x < y in double arithmetic (false when either is NaN)
FLt(x, y) ==
    IF x.cls = "nan" \/ y.cls = "nan" THEN FALSE
    ELSE IF x.cls = "inf" THEN x.v = -1 /\ ~(y.cls = "inf" /\ y.v = -1)
    ELSE IF y.cls = "inf" THEN y.v = 1
    ELSE x.v < y.v

\* x == y in double arithmetic (false when either is NaN)
FEq(x, y) == x.cls # "nan" /\ y.cls # "nan" /\ x = y

FLe(x, y) == FLt(x, y) \/ FEq(x, y)
FGt(x, y) == FLt(y, x)
FGe(x, y) == FLe(y, x)

(* ---------- strings ---------- *)
STR_DEPOSIT == <<"D", "E", "P", "O", "S", "I", "T">>
STR_WITHDRAW == <<"W", "I", "T", "H", "D", "R", "A", "W">>
STR_TRANSFER_OUT == <<"T", "R", "A", "N", "S", "F", "E", "R", "_", "O", "U", "T">>
STR_TRANSFER_IN == <<"T", "R", "A", "N", "S", "F", "E", "R", "_", "I", "N">>

\* strncpy(dst, src, n) followed by dst[n] = 0, read back as a C string
strncpy(src, n) == IF Len(src) <= n THEN src ELSE SubSeq(src, 1, n)

\* fgets(dst, n, stdin) of a line, with the newline removed
fgets(line, n) == IF Len(line) <= n - 1 THEN line ELSE SubSeq(line, 1, n - 1)

(* ---------- records ---------- *)
ZeroAccount ==
    [acc_no |-> 0, name |-> <<>>, pin |-> 0, balance |-> Fin(0),
     txns |-> <<>>, txn_count |-> 0]

NoFile == [exists |-> FALSE, hdr |-> <<>>, recs |-> <<>>]

(* ---------- inputs ---------- *)
\* customer names, PINs typed at creation, at login and at a PIN change
Names == {<<"a", "n", "n">>}
Pins == {-1}
LoginPins == {1, 2}
NewPins == {2}
\* initial deposits, and amounts typed in a session
Deposits == {Fin(-1), Fin(0), Fin(3)}
Amounts == {Fin(0), Fin(2), NaN}
\* account numbers typed: every number that can exist, and one that cannot
AccNos == BASE_ACC_NO .. (BASE_ACC_NO + MAX_ACCOUNTS)

(* ---------- Persistence ---------- *)
\* the number of items save_accounts passes to fwrite
FileItems(cnt) == 2 + cnt

\* save_accounts(): the data file after the call.  w = -1 when fopen fails,
\* otherwise the number of items that reach the file
save_accounts(cnt, next, accs, w) ==
    IF w < 0 THEN file
    ELSE [exists |-> TRUE,
          hdr |-> SubSeq(<<cnt, next>>, 1, IF w < 2 THEN w ELSE 2),
          recs |-> SubSeq(accs, 1, IF w < 2 THEN 0 ELSE w - 2)]

\* the outcomes of one call of save_accounts(): fopen fails, or all is written
WriteOutcomes(cnt) == {-1, FileItems(cnt)}

SaveResult(cnt, w) ==
    IF w < 0 THEN "fopen_failed"
    ELSE IF w < FileItems(cnt) THEN "short" ELSE "ok"

\* load_accounts() that leaves next_acc_no at its initial value
load_accounts_no_counter(f) ==
    IF ~f.exists \/ Len(f.hdr) < 2 THEN <<0, BASE_ACC_NO, <<>>>>
    ELSE <<f.hdr[1], BASE_ACC_NO, f.recs>>

\* load_accounts() in a fresh process (account_count = 0, next_acc_no =
\* BASE_ACC_NO, accounts zero-filled): <<account_count, next_acc_no, accounts>>
load_accounts(f) ==
    IF ~f.exists \/ Len(f.hdr) = 0 THEN <<0, BASE_ACC_NO, <<>>>>
    ELSE IF Len(f.hdr) = 1 THEN
        <<f.hdr[1], BASE_ACC_NO, [i \in 1..f.hdr[1] |-> ZeroAccount]>>
    ELSE
        <<f.hdr[1], f.hdr[2],
          [i \in 1..f.hdr[1] |->
             IF i <= Len(f.recs) THEN f.recs[i] ELSE ZeroAccount]>>

(* ---------- Utilities ---------- *)
\* find_account(): index of the first account with that number, 0 for NULL
find_account(acc_no) ==
    IF \E i \in 1..account_count : accounts[i].acc_no = acc_no
    THEN CHOOSE i \in 1..account_count :
            /\ accounts[i].acc_no = acc_no
            /\ \A j \in 1..(i - 1) : accounts[j].acc_no # acc_no
    ELSE 0

\* time(NULL): the clock advances by one with every command that has an effect
time == steps

\* add_txn() whose rotation overwrites the newest entry and keeps the oldest
add_txn_keep_oldest(acc, type, amount, other) ==
    LET t == [type |-> strncpy(type, TYPE_LEN - 1), amount |-> amount,
              ts |-> time, other_acc |-> other]
    IN IF acc.txn_count < MAX_TXNS
       THEN [acc EXCEPT !.txns = Append(acc.txns, t),
                        !.txn_count = acc.txn_count + 1]
       ELSE [acc EXCEPT !.txns = Append(SubSeq(acc.txns, 1, MAX_TXNS - 1), t)]

\* add_txn(): the account record after the call
add_txn(acc, type, amount, other) ==
    LET t == [type |-> strncpy(type, TYPE_LEN - 1), amount |-> amount,
              ts |-> time, other_acc |-> other]
    IN IF acc.txn_count < MAX_TXNS
       THEN [acc EXCEPT !.txns = Append(acc.txns, t),
                        !.txn_count = acc.txn_count + 1]
       ELSE [acc EXCEPT !.txns = Append(Tail(acc.txns), t)]

(* ---------- messages ---------- *)
Msg(m, amt, no) == [msg |-> m, amt |-> amt, acc |-> no]
Say(m) == Msg(m, Fin(0), 0)

(* ---------- Init ---------- *)
\* main() has called load_accounts() on a missing data file
Init ==
    /\ accounts = <<>>
    /\ account_count = 0
    /\ next_acc_no = BASE_ACC_NO
    /\ file = NoFile
    /\ pc = "menu"
    /\ cur = 0
    /\ out = Say("")
    /\ save_res = "none"
    /\ last_issued = 0
    /\ steps = 0

Step == steps < MaxSteps /\ steps' = steps + 1

\* a command that ends before it changes anything: what it prints
Rejected(m) ==
    /\ UNCHANGED steps
    /\ out' = Say(m)
    /\ UNCHANGED save_res
    /\ UNCHANGED <<accounts, account_count, next_acc_no, file, last_issued>>

\* the tail of a command that changed the account table to accs: save_accounts()
\* with outcome w, then the message
\* the tail of a command that puts the account table back when fopen fails
Saved_rollback(cnt, next, accs, w, m) ==
    /\ Step
    /\ accounts' = IF w < 0 THEN accounts ELSE accs
    /\ file' = save_accounts(cnt, next, accs, w)
    /\ save_res' = SaveResult(cnt, w)
    /\ out' = m

Saved(cnt, next, accs, w, m) ==
    /\ Step
    /\ accounts' = accs
    /\ file' = save_accounts(cnt, next, accs, w)
    /\ save_res' = SaveResult(cnt, w)
    /\ out' = m

(* ---------- create_account ---------- *)
\* lines 99-116: the new record and the table with it
\* lines 99-116 with a log entry only for a positive initial deposit
new_account_log_positive(name, pin, dep) ==
    LET acc == [acc_no |-> next_acc_no, name |-> fgets(name, NAME_LEN),
                pin |-> IF pin < 0 THEN -pin ELSE pin,
                balance |-> dep, txns |-> <<>>, txn_count |-> 0]
    IN IF FGt(dep, Fin(0)) THEN add_txn(acc, STR_DEPOSIT, dep, 0) ELSE acc

new_account(name, pin, dep) ==
    add_txn([acc_no |-> next_acc_no, name |-> fgets(name, NAME_LEN),
             pin |-> IF pin < 0 THEN -pin ELSE pin,
             balance |-> dep, txns |-> <<>>, txn_count |-> 0],
            STR_DEPOSIT, dep, 0)

\* create_account() whose capacity test is off by one (> for >=)
create_account_one_more(name, pin, dep, w) ==
    /\ pc = "menu"
    /\ IF account_count > MAX_ACCOUNTS
       THEN Rejected("Reached maximum account limit.")
       ELSE /\ next_acc_no' = next_acc_no + 1
            /\ account_count' = account_count + 1
            /\ last_issued' = next_acc_no
            /\ Saved(account_count + 1, next_acc_no + 1,
                     Append(accounts, new_account(name, pin, dep)), w,
                     Msg("Account created successfully!", Fin(0), next_acc_no))
    /\ UNCHANGED <<pc, cur>>

\* create_account() that numbers the account with ++next_acc_no
create_account_preincrement(name, pin, dep, w) ==
    /\ pc = "menu"
    /\ IF account_count >= MAX_ACCOUNTS
       THEN Rejected("Reached maximum account limit.")
       ELSE /\ next_acc_no' = next_acc_no + 1
            /\ account_count' = account_count + 1
            /\ last_issued' = next_acc_no + 1
            /\ Saved(account_count + 1, next_acc_no + 1,
                     Append(accounts,
                            [new_account(name, pin, dep)
                                EXCEPT !.acc_no = next_acc_no + 1]), w,
                     Msg("Account created successfully!", Fin(0), next_acc_no + 1))
    /\ UNCHANGED <<pc, cur>>

create_account(name, pin, dep, w) ==
    /\ pc = "menu"
    /\ IF account_count >= MAX_ACCOUNTS
       THEN Rejected("Reached maximum account limit.")
       ELSE /\ next_acc_no' = next_acc_no + 1
            /\ account_count' = account_count + 1
            /\ last_issued' = next_acc_no
            /\ Saved(account_count + 1, next_acc_no + 1,
                     Append(accounts, new_account(name, pin, dep)), w,
                     Msg("Account created successfully!", Fin(0), next_acc_no))
    /\ UNCHANGED <<pc, cur>>

(* ---------- login_account ---------- *)
\* login_account() without the comparison of the PIN
login_account_any_pin(acc_no, pin) ==
    /\ pc = "menu"
    /\ LET acc == find_account(acc_no)
       IN IF acc = 0
          THEN out' = Say("Account not found.") /\ UNCHANGED <<pc, cur, steps>>
          ELSE /\ Step
               /\ pc' = "session"
               /\ cur' = acc
               /\ out' = Msg("Welcome", Fin(0), accounts[acc].acc_no)
    /\ UNCHANGED save_res
    /\ UNCHANGED <<accounts, account_count, next_acc_no, file, last_issued>>

login_account(acc_no, pin) ==
    /\ pc = "menu"
    /\ LET acc == find_account(acc_no)
       IN IF acc = 0
          THEN out' = Say("Account not found.") /\ UNCHANGED <<pc, cur, steps>>
          ELSE IF accounts[acc].pin # pin
          THEN out' = Say("Incorrect PIN.") /\ UNCHANGED <<pc, cur, steps>>
          ELSE /\ Step
               /\ pc' = "session"
               /\ cur' = acc
               /\ out' = Msg("Welcome", Fin(0), accounts[acc].acc_no)
    /\ UNCHANGED save_res
    /\ UNCHANGED <<accounts, account_count, next_acc_no, file, last_issued>>

(* ---------- atm_session ---------- *)
\* choice 1
check_balance ==
    /\ pc = "session"
    /\ UNCHANGED steps
    /\ out' = Msg("Available balance", accounts[cur].balance, 0)
    /\ UNCHANGED save_res
    /\ UNCHANGED <<accounts, account_count, next_acc_no, file, pc, cur,
                   last_issued>>

\* lines 164-165
debit(accs, i, amt) ==
    [accs EXCEPT ![i] = add_txn([@ EXCEPT !.balance = FSub(@, amt)],
                                STR_WITHDRAW, amt, 0)]

\* choice 2 with the debit made before the balance is checked
withdraw_check_late(amt, w) ==
    /\ pc = "session"
    /\ IF FLe(amt, Fin(0)) THEN Rejected("Invalid amount.")
       ELSE IF FGt(amt, accounts[cur].balance)
       THEN /\ accounts' = [accounts EXCEPT ![cur].balance = FSub(@, amt)]
            /\ out' = Say("Insufficient funds.")
            /\ UNCHANGED <<account_count, next_acc_no, file, save_res,
                           last_issued, steps>>
       ELSE /\ Saved(account_count, next_acc_no, debit(accounts, cur, amt), w,
                     Msg("Withdrawn", amt, 0))
            /\ UNCHANGED <<account_count, next_acc_no, last_issued>>
    /\ UNCHANGED <<pc, cur>>

\* choice 2
withdraw(amt, w) ==
    /\ pc = "session"
    /\ IF FLe(amt, Fin(0)) THEN Rejected("Invalid amount.")
       ELSE IF FGt(amt, accounts[cur].balance) THEN Rejected("Insufficient funds.")
       ELSE /\ Saved(account_count, next_acc_no, debit(accounts, cur, amt), w,
                     Msg("Withdrawn", amt, 0))
            /\ UNCHANGED <<account_count, next_acc_no, last_issued>>
    /\ UNCHANGED <<pc, cur>>

\* lines 173-174 with = in place of +=
credit_assign(accs, i, amt) ==
    [accs EXCEPT ![i] = add_txn([@ EXCEPT !.balance = amt], STR_DEPOSIT, amt, 0)]

\* lines 173-174
credit(accs, i, amt) ==
    [accs EXCEPT ![i] = add_txn([@ EXCEPT !.balance = FAdd(@, amt)],
                                STR_DEPOSIT, amt, 0)]

\* choice 3
\* choice 3 with the amount test amt < 0 in place of amt <= 0
deposit_accept_zero(amt, w) ==
    /\ pc = "session"
    /\ IF FLt(amt, Fin(0)) THEN Rejected("Invalid amount.")
       ELSE /\ Saved(account_count, next_acc_no, credit(accounts, cur, amt), w,
                     Msg("Deposited", amt, 0))
            /\ UNCHANGED <<account_count, next_acc_no, last_issued>>
    /\ UNCHANGED <<pc, cur>>

deposit(amt, w) ==
    /\ pc = "session"
    /\ IF FLe(amt, Fin(0)) THEN Rejected("Invalid amount.")
       ELSE /\ Saved(account_count, next_acc_no, credit(accounts, cur, amt), w,
                     Msg("Deposited", amt, 0))
            /\ UNCHANGED <<account_count, next_acc_no, last_issued>>
    /\ UNCHANGED <<pc, cur>>

\* lines 188-191 with the credit and its entry put on the first record of
\* the table instead of the recipient's
move_to_first(accs, acc, rcv, to_acc, amt) ==
    LET a1 == [accs EXCEPT ![acc].balance = FSub(@, amt)]
        a2 == [a1 EXCEPT ![1].balance = FAdd(@, amt)]
        a3 == [a2 EXCEPT ![acc] = add_txn(@, STR_TRANSFER_OUT, amt, to_acc)]
    IN [a3 EXCEPT ![1] = add_txn(@, STR_TRANSFER_IN, amt, a3[acc].acc_no)]

\* lines 188-191; acc and rcv may be the same record
move(accs, acc, rcv, to_acc, amt) ==
    LET a1 == [accs EXCEPT ![acc].balance = FSub(@, amt)]
        a2 == [a1 EXCEPT ![rcv].balance = FAdd(@, amt)]
        a3 == [a2 EXCEPT ![acc] = add_txn(@, STR_TRANSFER_OUT, amt, to_acc)]
    IN [a3 EXCEPT ![rcv] = add_txn(@, STR_TRANSFER_IN, amt, a3[acc].acc_no)]

\* choice 4 with save_accounts() called between the debit and the credit
transfer_save_early(to_acc, amt, w) ==
    /\ pc = "session"
    /\ LET rcv == find_account(to_acc)
       IN IF rcv = 0 THEN Rejected("Recipient not found.")
          ELSE IF FLe(amt, Fin(0)) THEN Rejected("Invalid amount.")
          ELSE IF FGt(amt, accounts[cur].balance) THEN Rejected("Insufficient funds.")
          ELSE /\ Step
               /\ accounts' = move(accounts, cur, rcv, to_acc, amt)
               /\ file' = save_accounts(account_count, next_acc_no,
                              [accounts EXCEPT ![cur].balance = FSub(@, amt)], w)
               /\ save_res' = SaveResult(account_count, w)
               /\ out' = Msg("Transferred", amt, to_acc)
               /\ UNCHANGED <<account_count, next_acc_no, last_issued>>
    /\ UNCHANGED <<pc, cur>>

\* choice 4
transfer(to_acc, amt, w) ==
    /\ pc = "session"
    /\ LET rcv == find_account(to_acc)
       IN IF rcv = 0 THEN Rejected("Recipient not found.")
          ELSE IF FLe(amt, Fin(0)) THEN Rejected("Invalid amount.")
          ELSE IF FGt(amt, accounts[cur].balance) THEN Rejected("Insufficient funds.")
          ELSE /\ Saved(account_count, next_acc_no,
                        move(accounts, cur, rcv, to_acc, amt), w,
                        Msg("Transferred", amt, to_acc))
               /\ UNCHANGED <<account_count, next_acc_no, last_issued>>
    /\ UNCHANGED <<pc, cur>>

\* choice 5
show_mini_statement ==
    /\ pc = "session"
    /\ UNCHANGED steps
    /\ out' = Msg("Mini-statement", Fin(0), accounts[cur].acc_no)
    /\ UNCHANGED save_res
    /\ UNCHANGED <<accounts, account_count, next_acc_no, file, pc, cur,
                   last_issued>>

\* choice 6
change_pin(newpin, w) ==
    /\ pc = "session"
    /\ Saved(account_count, next_acc_no,
             [accounts EXCEPT ![cur].pin = newpin], w,
             Say("PIN changed successfully."))
    /\ UNCHANGED <<account_count, next_acc_no, last_issued, pc, cur>>

\* choice 7
logout ==
    /\ pc = "session"
    /\ Step
    /\ pc' = "menu"
    /\ cur' = 0
    /\ out' = Say("Logging out...")
    /\ UNCHANGED save_res
    /\ UNCHANGED <<accounts, account_count, next_acc_no, file, last_issued>>

\* any scanf that fails to convert, and any other choice, in either loop
invalid_input ==
    /\ pc \in {"menu", "session"}
    /\ Rejected("Invalid.")
    /\ UNCHANGED <<pc, cur>>

(* ---------- main ---------- *)
\* choice 3 of the main menu
main_exit ==
    /\ pc = "menu"
    /\ Step
    /\ pc' = "exited"
    /\ out' = Say("Goodbye!")
    /\ UNCHANGED save_res
    /\ UNCHANGED <<accounts, account_count, next_acc_no, file, cur,
                   last_issued>>

\* the program is run again: fresh globals, then load_accounts()
main_start ==
    /\ pc = "exited"
    /\ Step
    /\ LET l == load_accounts(file)
       IN /\ account_count' = l[1]
          /\ next_acc_no' = l[2]
          /\ accounts' = l[3]
    /\ pc' = "menu"
    /\ cur' = 0
    /\ out' = Say("")
    /\ UNCHANGED save_res
    /\ UNCHANGED <<file, last_issued>>

Next ==
    \/ \E n \in Names, p \in Pins, d \in Deposits, w \in WriteOutcomes(account_count + 1) :
          create_account(n, p, d, w)
    \/ \E a \in AccNos, p \in LoginPins : login_account(a, p)
    \/ check_balance
    \/ \E d \in Amounts, w \in WriteOutcomes(account_count) : withdraw(d, w)
    \/ \E d \in Amounts, w \in WriteOutcomes(account_count) : deposit(d, w)
    \/ \E a \in AccNos, d \in Amounts, w \in WriteOutcomes(account_count) :
          transfer(a, d, w)
    \/ show_mini_statement
    \/ \E p \in NewPins, w \in WriteOutcomes(account_count) : change_pin(p, w)
    \/ logout
    \/ invalid_input
    \/ main_exit
    \/ main_start

Spec == Init /\ [][Next]_vars

(* ---------- a device that fills up ---------- *)
\* save_accounts() does not look at what fwrite returns: when the device
\* fills up, or the process is stopped between two calls of fwrite, only the
\* first w of the items reach the file that fopen has emptied
ShortWriteOutcomes(cnt) == -1 .. FileItems(cnt)

\* one initial deposit and one amount are enough to tell the accounts apart
ShortWriteDeposits == {Fin(3)}
ShortWriteAmounts == {Fin(2)}

\* account numbers typed: those of AccNos, and 0, the number of a zero record
ShortWriteAccNos == AccNos \cup {0}
\* PINs typed at login: that of a created account, and 0, the PIN of a zero record
ShortWriteLoginPins == {0, 1}

NextShortWrite ==
    \/ \E n \in Names, p \in Pins, d \in ShortWriteDeposits,
          w \in ShortWriteOutcomes(account_count + 1) :
          create_account(n, p, d, w)
    \/ \E a \in ShortWriteAccNos, p \in ShortWriteLoginPins : login_account(a, p)
    \/ check_balance
    \/ \E d \in ShortWriteAmounts, w \in ShortWriteOutcomes(account_count) :
          withdraw(d, w)
    \/ \E d \in ShortWriteAmounts, w \in ShortWriteOutcomes(account_count) :
          deposit(d, w)
    \/ \E a \in ShortWriteAccNos, d \in ShortWriteAmounts,
          w \in ShortWriteOutcomes(account_count) :
          transfer(a, d, w)
    \/ show_mini_statement
    \/ \E p \in NewPins, w \in ShortWriteOutcomes(account_count) : change_pin(p, w)
    \/ logout
    \/ invalid_input
    \/ main_exit
    \/ main_start

SpecShortWrite == Init /\ [][NextShortWrite]_vars

(* ---------- amounts that meet the precision of a double ---------- *)
\* an initial deposit and an amount whose sum and difference need one more
\* significant bit than a double has (as 0.9 and 0.2 do in the source's
\* arithmetic); the two sets are disjoint
RoundingDeposits == {Fin(3 * Pow2(MantBits - 1))}
RoundingAmounts == {Fin(1)}

NextRounding ==
    \/ \E n \in Names, p \in Pins, d \in RoundingDeposits,
          w \in WriteOutcomes(account_count + 1) :
          create_account(n, p, d, w)
    \/ \E a \in AccNos, p \in LoginPins : login_account(a, p)
    \/ check_balance
    \/ \E d \in RoundingAmounts, w \in WriteOutcomes(account_count) : withdraw(d, w)
    \/ \E d \in RoundingAmounts, w \in WriteOutcomes(account_count) : deposit(d, w)
    \/ \E a \in AccNos, d \in RoundingAmounts, w \in WriteOutcomes(account_count) :
          transfer(a, d, w)
    \/ show_mini_statement
    \/ \E p \in NewPins, w \in WriteOutcomes(account_count) : change_pin(p, w)
    \/ logout
    \/ invalid_input
    \/ main_exit
    \/ main_start

SpecRounding == Init /\ [][NextRounding]_vars

(***************************************************************************)
(* Properties                                                              *)
(***************************************************************************)
Zero == Fin(0)
Bal(accs, i) == accs[i].balance
Log(accs, i) == accs[i].txns
Exact(x) == x.v
Finite(x) == x.cls = "fin"

\* the last command was a transfer that succeeded with 0 < amount <= balance
TransferDone ==
    /\ pc = "session"
    /\ out'.msg = "Transferred"
    /\ FGt(out'.amt, Zero)
    /\ FLe(out'.amt, Bal(accounts, cur))

\* C1: every transfer that succeeds with 0 < amount <= sender balance leaves
\* the sum of the sender's and the recipient's balances as it was, whether
\* the sums are taken in the program's double arithmetic or exactly.
C1_Conservation ==
    [][TransferDone =>
        LET r == find_account(out'.acc)
            s0 == Bal(accounts, cur)
            r0 == Bal(accounts, r)
            s1 == Bal(accounts', cur)
            r1 == Bal(accounts', r)
        IN \/ FAdd(s1, r1) = FAdd(s0, r0)
           \/ /\ Finite(s0) /\ Finite(r0) /\ Finite(s1) /\ Finite(r1)
              /\ Exact(s1) + Exact(r1) = Exact(s0) + Exact(r0)]_vars

\* C2: a deposit of amount > 0 leaves balance = balance before + amount; a
\* withdrawal with 0 < amount <= balance leaves balance = balance before -
\* amount (both in double arithmetic); a withdrawal with amount > balance
\* leaves the balance as it was.
C2_DepositWithdraw ==
    [][pc = "session" =>
        LET b0 == Bal(accounts, cur)
            b1 == Bal(accounts', cur)
            a == out'.amt
        IN /\ (out'.msg = "Deposited" /\ FGt(a, Zero)) => b1 = FAdd(b0, a)
           /\ (out'.msg = "Withdrawn" /\ FGt(a, Zero) /\ FLe(a, b0)) => b1 = FSub(b0, a)
           /\ \A d \in Amounts :
                 FGt(d, b0) =>
                    \A w \in WriteOutcomes(account_count) : withdraw(d, w) => b1 = b0]_vars

\* an account opened with -1 has had deposits of 2 and a withdrawal of 2,
\* and a further withdrawal of 2 has been refused for lack of funds
C2_Witness ==
    /\ pc = "session"
    /\ out.msg = "Insufficient funds."
    /\ Bal(accounts, cur) = Fin(1)
    /\ Len(Log(accounts, cur)) >= 2
    /\ LET l == Log(accounts, cur)
       IN /\ l[Len(l) - 1].type = STR_DEPOSIT /\ l[Len(l) - 1].amount = Fin(2)
          /\ l[Len(l)].type = strncpy(STR_WITHDRAW, TYPE_LEN - 1)
          /\ l[Len(l)].amount = Fin(2)

\* C3: right after a withdrawal or a transfer that succeeded, the balance of
\* the account debited is >= 0.
C3_NoNegative ==
    [][(pc = "session" /\ out'.msg \in {"Withdrawn", "Transferred"}) =>
          FGe(Bal(accounts', cur), Zero)]_vars

\* C4: a deposit, withdrawal or transfer refused for its amount, for lack of
\* funds or for an unknown recipient changes nothing: not the accounts
\* (balances, PINs, logs, log counts), the account count, the counter or the
\* data file.
C4_RejectedUnchanged ==
    [][out'.msg \in {"Invalid amount.", "Insufficient funds.", "Recipient not found."}
          => UNCHANGED <<accounts, account_count, next_acc_no, file>>]_vars

\* a transfer to an unknown number has been refused in a session on a ledger
\* whose data file has been written
C4_Witness ==
    /\ pc = "session"
    /\ out.msg = "Recipient not found."
    /\ file.exists
    /\ Len(Log(accounts, cur)) >= 2

\* the log `old` with entry e appended as C5 describes it
Pushed(old, e) ==
    IF Len(old) < MAX_TXNS THEN old \o <<e>>
    ELSE [k \in 1..MAX_TXNS |-> IF k < MAX_TXNS THEN old[k + 1] ELSE e]

\* `new` is `old` after one append, after two, or untouched
LogStep(old, new, twice) ==
    \/ new = old
    \/ Len(new) >= 1 /\ new = Pushed(old, new[Len(new)])
    \/ /\ twice
       /\ Len(new) >= 2
       /\ new = Pushed(Pushed(old, new[Len(new) - 1]), new[Len(new)])

\* C5: every log holds at most MAX_TXNS entries (0 <= txn_count <= MAX_TXNS);
\* an append to a log that is not full adds the entry at the end; an append
\* to a full log removes the oldest entry, keeps the others in order and puts
\* the new entry last.  A command appends at most once to a log (twice to the
\* log of an account that transfers to itself).
C5_LogBounded ==
    /\ [](\A i \in 1..account_count :
            /\ accounts[i].txn_count \in 0..MAX_TXNS
            /\ Len(accounts[i].txns) = accounts[i].txn_count)
    /\ [][pc # "exited" =>
            \A i \in 1..account_count :
               LogStep(Log(accounts, i), Log(accounts', i),
                       out'.msg = "Transferred" /\ out'.acc = accounts[i].acc_no)]_vars

\* a log is full and the entry written when the account was opened is gone
C5_Witness ==
    \E i \in 1..account_count :
        /\ accounts[i].txn_count = MAX_TXNS
        /\ \A k \in 1..MAX_TXNS : accounts[i].txns[k].amount \notin Deposits

\* C6: over any execution, restarts included, the numbers printed by
\* successive successful create_account calls are strictly increasing (so
\* none is given out twice).
C6_StrictlyIncreasing ==
    [][out'.msg = "Account created successfully!" => out'.acc > last_issued]_vars

\* C7: round trip: when the last save_accounts() succeeded, the ledger that
\* load_accounts() builds in the next process equals the ledger the previous
\* process held: account count, counter, and every account's number, name,
\* PIN, balance, log entries and log count.
C7_RoundTrip ==
    [][(pc = "exited" /\ pc' = "menu" /\ save_res = "ok") =>
          /\ account_count' = account_count
          /\ next_acc_no' = next_acc_no
          /\ accounts' = accounts]_vars

\* a process has started on a data file that holds MAX_ACCOUNTS accounts
C7_Witness ==
    /\ pc = "menu"
    /\ out.msg = ""
    /\ steps > 0
    /\ save_res = "ok"
    /\ account_count = MAX_ACCOUNTS
    /\ \E i \in 1..account_count : Bal(accounts, i) = Fin(-1)

\* the data file that holds exactly the ledger (cnt, next, accs)
Snapshot(cnt, next, accs) == [exists |-> TRUE, hdr |-> <<cnt, next>>, recs |-> accs]

C9_TransferLogged ==
    [][TransferDone =>
          LET r == find_account(out'.acc)
              sl == Log(accounts', cur)
              rl == Log(accounts', r)
          IN /\ sl[Len(sl)].type = STR_TRANSFER_OUT
             /\ sl[Len(sl)].amount = out'.amt
             /\ sl[Len(sl)].other_acc = out'.acc
             /\ rl[Len(rl)].type = STR_TRANSFER_IN
             /\ rl[Len(rl)].amount = out'.amt
             /\ rl[Len(rl)].other_acc = accounts[cur].acc_no]_vars

\* C10: the kind stored in every log entry is one of DEPOSIT, WITHDRAW,
\* TRANSFER_OUT, TRANSFER_IN (so that the kinds can be told apart when the
\* log is read back).
C10_Kinds ==
    \A i \in 1..account_count :
        \A k \in 1..Len(accounts[i].txns) :
            accounts[i].txns[k].type \in
                {STR_DEPOSIT, STR_WITHDRAW, STR_TRANSFER_OUT, STR_TRANSFER_IN}

\* the ledger of the process: count, counter and account table
Ledger == <<account_count, next_acc_no, accounts>>

\* C11: the number of accounts never exceeds MAX_ACCOUNTS, and create_account
\* called on a full table leaves the account table, the count, the counter
\* and the data file as they were.
C11_Capacity ==
    /\ [](account_count <= MAX_ACCOUNTS /\ Len(accounts) = account_count)
    /\ [][(/\ account_count >= MAX_ACCOUNTS
           /\ \E n \in Names, p \in Pins, d \in Deposits,
                 w \in WriteOutcomes(account_count + 1) :
                 create_account(n, p, d, w))
          => /\ out'.msg = "Reached maximum account limit."
             /\ UNCHANGED <<Ledger, file>>]_vars

\* create_account has been refused on a full table whose data file is written
C11_Witness ==
    /\ out.msg = "Reached maximum account limit."
    /\ account_count = MAX_ACCOUNTS
    /\ file.exists

\* load_accounts() can read every item of the data file f
ReadInFull(f) == f.exists /\ Len(f.hdr) = 2 /\ Len(f.recs) = f.hdr[1]

\* C12: when main() starts on a data file that is missing or that cannot be
\* read in full, load_accounts() leaves the empty ledger: account_count is 0
\* and next_acc_no is BASE_ACC_NO.
C12_LoadFallback ==
    [][(pc = "exited" /\ pc' = "menu" /\ ~ReadInFull(file))
          => account_count' = 0 /\ next_acc_no' = BASE_ACC_NO]_vars

\* C13: a session starts only by a login whose account number is that of an
\* account and whose PIN equals the PIN that account holds now; a login,
\* whether it succeeds or not, changes neither the ledger nor the data file;
\* a login with an unknown number or a wrong PIN starts no session.
C13_Authenticate ==
    [][/\ (pc = "menu" /\ pc' = "session")
             => \E a \in AccNos, p \in LoginPins :
                   /\ login_account(a, p)
                   /\ accounts[cur'].acc_no = a
                   /\ accounts[cur'].pin = p
       /\ \A a \in AccNos, p \in LoginPins :
             login_account(a, p)
                => /\ UNCHANGED <<Ledger, file>>
                   /\ (\/ find_account(a) = 0
                       \/ accounts[find_account(a)].pin # p)
                         => (pc' = "menu" /\ cur' = cur)]_vars

\* a session has started with a PIN set by change_pin
C13_Witness ==
    /\ pc = "session"
    /\ out.msg = "Welcome"
    /\ accounts[cur].pin \in NewPins
    /\ accounts[cur].acc_no = out.acc

\* the ledger that the items of data file f spell out, the empty ledger when
\* there is no file
FileLedger(f) ==
    IF f.exists THEN <<f.hdr[1], f.hdr[2], f.recs>> ELSE <<0, BASE_ACC_NO, <<>>>>

C15_OpenAccount ==
    [][\A n \in Names, p \in Pins, d \in Deposits,
          w \in WriteOutcomes(account_count + 1) :
          (/\ pc = "menu"
           /\ account_count < MAX_ACCOUNTS
           /\ create_account(n, p, d, w))
          => /\ out'.msg = "Account created successfully!"
             /\ account_count' = account_count + 1
             /\ next_acc_no' = next_acc_no + 1
             /\ Len(accounts') = account_count + 1
             /\ SubSeq(accounts', 1, account_count) = accounts
             /\ LET a == accounts'[account_count + 1]
                IN /\ a.acc_no = next_acc_no
                   /\ a.balance = d
                   /\ a.txn_count = 1
                   /\ Len(a.txns) = 1
                   /\ a.txns[1].type = STR_DEPOSIT
                   /\ a.txns[1].amount = d
                   /\ a.txns[1].other_acc = 0]_vars

\* two accounts have been created, one with initial deposit 0 and one with a
\* negative initial deposit, and each holds its DEPOSIT entry
C15_Witness ==
    /\ out.msg = "Account created successfully!"
    /\ account_count = 2
    /\ \E i, j \in 1..account_count :
          /\ Bal(accounts, i) = Fin(0)
          /\ Log(accounts, i) # <<>> /\ Log(accounts, i)[1].amount = Fin(0)
          /\ Bal(accounts, j) = Fin(-1)
          /\ Log(accounts, j) # <<>> /\ Log(accounts, j)[1].amount = Fin(-1)
          /\ accounts[j].acc_no = out.acc

\* C16: in every reachable state the amount of every entry of every log is
\* greater than 0.
C16_PositiveAmounts ==
    \A i \in 1..account_count :
        \A k \in 1..Len(Log(accounts, i)) :
            FGt(Log(accounts, i)[k].amount, Zero)

\* C16, amended: no entry written by a deposit, a withdrawal or a transfer
\* has an amount <= 0; an amount <= 0 is found only in the DEPOSIT entry that
\* create_account wrote, the oldest entry of a log that has dropped nothing.
C16_SessionAmounts ==
    \A i \in 1..account_count :
        \A k \in 1..Len(Log(accounts, i)) :
            LET e == Log(accounts, i)[k]
            IN \/ ~FLe(e.amount, Zero)
               \/ k = 1 /\ e.type = STR_DEPOSIT /\ e.other_acc = 0

\* a log that begins with the DEPOSIT entry of an initial deposit <= 0 and
\* goes on with the entry of a command of a session
C16_Witness ==
    \E i \in 1..account_count :
        /\ Len(Log(accounts, i)) >= 2
        /\ FLe(Log(accounts, i)[1].amount, Zero)
        /\ FGt(Log(accounts, i)[2].amount, Zero)

\* C17: a deposit, a withdrawal and a PIN change touch only the account of
\* the session, a transfer only the sender and the recipient; a PIN change
\* leaves balance and log alone and nothing else changes a PIN; no command of
\* a session changes an account's number or name, account_count or
\* next_acc_no; the entries of a log are never rewritten, a command only
\* appends entries and drops the oldest ones.
C17_Frame ==
    [][pc = "session"
          => LET m == out'.msg
                 r == find_account(out'.acc)
             IN /\ account_count' = account_count
                /\ next_acc_no' = next_acc_no
                /\ Len(accounts') = Len(accounts)
                /\ \A i \in 1..account_count :
                      /\ accounts'[i].acc_no = accounts[i].acc_no
                      /\ accounts'[i].name = accounts[i].name
                      /\ (m \in {"Deposited", "Withdrawn", "PIN changed successfully."}
                          /\ i # cur)
                            => accounts'[i] = accounts[i]
                      /\ (m = "Transferred" /\ i # cur /\ i # r)
                            => accounts'[i] = accounts[i]
                      /\ (m \notin {"Deposited", "Withdrawn", "Transferred",
                                    "PIN changed successfully."})
                            => accounts'[i] = accounts[i]
                      /\ (m = "PIN changed successfully.")
                            => /\ Bal(accounts', i) = Bal(accounts, i)
                               /\ Log(accounts', i) = Log(accounts, i)
                               /\ accounts'[i].txn_count = accounts[i].txn_count
                      /\ (m # "PIN changed successfully.")
                            => accounts'[i].pin = accounts[i].pin
                      /\ LogStep(Log(accounts, i), Log(accounts', i),
                                 m = "Transferred" /\ i = cur /\ i = r)]_vars

\* an account has transferred to itself while the table holds another account
C17_Witness ==
    /\ pc = "session"
    /\ out.msg = "Transferred"
    /\ out.acc = accounts[cur].acc_no
    /\ account_count >= 2

Stored(type) == strncpy(type, TYPE_LEN - 1)

\* the sum, in double arithmetic and in the order of the log, of the amounts
\* of the entries of log whose stored kind is in kinds
RECURSIVE SumAmounts(_, _)
SumAmounts(log, kinds) ==
    IF log = <<>> THEN Zero
    ELSE LET front == SubSeq(log, 1, Len(log) - 1)
             e == log[Len(log)]
         IN IF e.type \in kinds THEN FAdd(SumAmounts(front, kinds), e.amount)
            ELSE SumAmounts(front, kinds)

\* the same sum over the integers
RECURSIVE ExactSum(_, _)
ExactSum(log, kinds) ==
    IF log = <<>> THEN 0
    ELSE LET front == SubSeq(log, 1, Len(log) - 1)
             e == log[Len(log)]
         IN IF e.type \in kinds THEN ExactSum(front, kinds) + Exact(e.amount)
            ELSE ExactSum(front, kinds)

\* the log of account i has dropped nothing: its oldest entry is the one
\* that create_account wrote, known by an amount that no command of a
\* session can have under SpecRounding
NothingDropped(i) ==
    /\ Log(accounts, i) # <<>>
    /\ Log(accounts, i)[1].type = Stored(STR_DEPOSIT)
    /\ Log(accounts, i)[1].other_acc = 0
    /\ Log(accounts, i)[1].amount \in RoundingDeposits \ RoundingAmounts

\* C19: the balance of an account whose log has dropped nothing equals the
\* sum of the amounts of its entries written by create_account, deposit and
\* an incoming transfer minus the sum of the amounts of its entries written
\* by withdraw and an outgoing transfer, with the sums taken in double
\* arithmetic or, for finite amounts, over the reals.  The two kinds of a
\* transfer are stored alike, so the property is stated here for the logs
\* that hold no entry of a transfer.
C19_BalanceIsLogSum ==
    \A i \in 1..account_count :
        LET log == Log(accounts, i)
            plus == {Stored(STR_DEPOSIT)}
            minus == {Stored(STR_WITHDRAW)}
        IN (/\ NothingDropped(i)
            /\ \A k \in 1..Len(log) : log[k].type \in plus \cup minus)
           => \/ Bal(accounts, i) = FSub(SumAmounts(log, plus), SumAmounts(log, minus))
              \/ /\ Finite(Bal(accounts, i))
                 /\ \A k \in 1..Len(log) : Finite(log[k].amount)
                 /\ Exact(Bal(accounts, i)) = ExactSum(log, plus) - ExactSum(log, minus)

\* C20: a transfer to the sender's own account number with 0 < amount <=
\* balance is carried out: it reports success, leaves the balance of the
\* account equal to what it was, and appends to its log the entry of the
\* outgoing transfer and then the entry of the incoming one, both with the
\* account's own number as counterparty.  The kinds are compared as stored.
C20_SelfTransfer ==
    [][\A d \in RoundingAmounts, w \in WriteOutcomes(account_count) :
          (/\ pc = "session"
           /\ FGt(d, Zero)
           /\ FLe(d, Bal(accounts, cur))
           /\ transfer(accounts[cur].acc_no, d, w))
          => LET own == accounts[cur].acc_no
                 eo == [type |-> Stored(STR_TRANSFER_OUT), amount |-> d,
                        ts |-> time, other_acc |-> own]
                 ei == [type |-> Stored(STR_TRANSFER_IN), amount |-> d,
                        ts |-> time, other_acc |-> own]
             IN /\ out'.msg = "Transferred"
                /\ Log(accounts', cur) = Pushed(Pushed(Log(accounts, cur), eo), ei)
                /\ Bal(accounts', cur) = Bal(accounts, cur)]_vars

====
